---- MODULE Spec2Model ----
(***************************************************************************)
(* homebridge-casatunes: the platform's start-up (fetchPlatformInfo) and   *)
(* discovery pass (fetchZones and discoverDevices of src/src/platform.ts), *)
(* the accessory handlers' SET path with group propagation (setOn /        *)
(* setVolume) and their GET path (getOn / getVolume).                      *)
(*                                                                         *)
(* Strings are sequences of characters (zone ids) or of tokens (the URI),  *)
(* so that includes('@') and match('undefined') are computed.              *)
(* Every `await fetch(...)` is a suspension point: a handler is one action *)
(* up to its fetch and one action from the response to its end.            *)
(***************************************************************************)
EXTENDS Integers, Sequences, FiniteSets, TLC

\* ------------------------------------------------------------------ bounds
MaxZones == 3       \* longest zone list the service answers with
MaxRequests == 3    \* handler invocations per process
MaxUserSets == 2    \* of which requests of HomeKit
MaxMembers == 2     \* longest ZoneGroupInfo of a write response

\* ------------------------------------------------- the service's zone data
\* The value of a JSON field that is missing (JavaScript undefined).
Undefined == <<"#undefined">>

AirZone == [Name |-> "AirPlay", PersistentZoneID |-> <<"z", "1", "@", "a">>, ZoneID |-> 1]
Zone2 == [Name |-> "Kitchen", PersistentZoneID |-> <<"z", "2">>, ZoneID |-> 2]
Zone3 == [Name |-> "Den", PersistentZoneID |-> <<"z", "3">>, ZoneID |-> 3]
Zone9 == [Name |-> "Den", PersistentZoneID |-> <<"z", "9">>, ZoneID |-> 9]
\* An entry of a malformed zone list: it carries no PersistentZoneID.
BadEntry == [Name |-> "Broken", PersistentZoneID |-> Undefined, ZoneID |-> 0]

ServiceZones == {AirZone, Zone2, Zone3, Zone9}
ListEntries == ServiceZones \cup {BadEntry}

Range(s) == {s[i] : i \in DOMAIN s}

\* Zone lists the service can answer GET /zones with: persistent ids are
\* unique within one list (spec section 3).
ZoneLists ==
  {l \in UNION {[1..n -> ListEntries] : n \in 0..MaxZones} :
     \A i, j \in DOMAIN l : i # j => l[i] # l[j]}

\* A member id of ZoneGroupInfo that belongs to no zone of the service's list.
StrayZoneId == 7
MemberIds == {z.ZoneID : z \in ServiceZones \ {AirZone}} \cup {StrayZoneId}
MemberLists == UNION {[1..n -> MemberIds] : n \in 0..MaxMembers}

\* Values a SET carries.
Volumes == {40}
DefaultOn == FALSE
DefaultBrightness == 0

\* ------------------------------------------------------------ pure helpers
\* A prefix test in place of the substring test.
IncludesFirst(s, c) == s # <<>> /\ s[1] = c

\* String.prototype.includes for a one-character needle.
Includes(s, c) == \E i \in DOMAIN s : s[i] = c

\* A test for the URI being the token and nothing else.
matchWhole(uri, token) == uri = <<token>>

\* String.prototype.match(token) on a URI held as a sequence of tokens.
match(uri, token) == \E i \in DOMAIN uri : uri[i] = token

\* api.hap.uuid.generate: deterministic and collision-free (spec 4.2 item 4).
generate(id) == <<"U">> \o id

UUIDs == {generate(z.PersistentZoneID) : z \in ServiceZones}

\* config.uri values: a configured URI, String(undefined), and a URI that
\* merely embeds the token.
ConfiguredUri == <<"http://casaserver:8735", "/api/v1">>
UnsetUri == <<"undefined">>
Uris == {ConfiguredUri, UnsetUri, <<"http://", "undefined", "/api/v1">>}

\* the zoneInfo stored for one entry of the list
zoneInfo(entry) == [Name |-> entry.Name, ID |-> entry.PersistentZoneID]

\* this.zonesArray[count] = temp  (count is 0-based in the source)
StoreAt(arr, count, temp) ==
  IF count + 1 <= Len(arr)
    THEN [arr EXCEPT ![count + 1] = temp]
    ELSE Append(arr, temp)

\* The loop of fetchZones over the parsed list; a missing PersistentZoneID
\* makes `.includes` throw and leaves the entries stored so far.
RECURSIVE fetchZonesLoop(_, _, _, _)
fetchZonesLoop(zones, i, count, arr) ==
  IF i > Len(zones) THEN [threw |-> FALSE, zonesArray |-> arr]
  ELSE IF zones[i].PersistentZoneID = Undefined
    THEN [threw |-> TRUE, zonesArray |-> arr]
  ELSE IF ~Includes(zones[i].PersistentZoneID, "@")
    THEN fetchZonesLoop(zones, i + 1, count + 1, StoreAt(arr, count, zoneInfo(zones[i])))
  ELSE fetchZonesLoop(zones, i + 1, count, arr)

\* Responses to GET /zones.
\*   reject : fetch or response.json() rejects (network error, unparsable
\*            body) or the body is null, so zones.length throws
\*   nolist : the body parses to a value without a length (a JSON error
\*            object, as sent with a non-2xx status): the loop runs 0 times
\*   list   : the body is a list of entries
ZonesResponses ==
  {[kind |-> "reject", zones |-> <<>>], [kind |-> "nolist", zones |-> <<>>]}
    \cup {[kind |-> "list", zones |-> l] : l \in ZoneLists}

\* A fetchZones that catches a rejected fetch and carries on.
fetchZonesCaught(arr, resp) ==
  IF resp.kind \in {"reject", "nolist"} THEN [threw |-> FALSE, zonesArray |-> arr]
  ELSE fetchZonesLoop(resp.zones, 1, 0, arr)

\* fetchZones from the response on: the resulting array and whether it threw.
fetchZones(arr, resp) ==
  IF resp.kind = "reject" THEN [threw |-> TRUE, zonesArray |-> arr]
  ELSE IF resp.kind = "nolist" THEN [threw |-> FALSE, zonesArray |-> arr]
  ELSE fetchZonesLoop(resp.zones, 1, 0, arr)

\* A lookup that only tests the first restored accessory.
existingAccessoryFirst(accs, uuid) == accs # <<>> /\ accs[1] = uuid

\* accessories.find(accessory => accessory.UUID === uuid)
existingAccessory(accs, uuid) == \E i \in DOMAIN accs : accs[i] = uuid

\* A lookup that compares the zone's raw id with the accessory's uuid.
existingDeviceById(zones, accUUID) == \E i \in DOMAIN zones : zones[i].ID = accUUID

\* zonesArray.find(zone => uuid.generate(zone.ID) === accessory.UUID)
existingDevice(zones, accUUID) == \E i \in DOMAIN zones : generate(zones[i].ID) = accUUID

\* The handler's bound zone id before setZoneId is called.
NoZoneId == <<>>
\* No CasaTunesPlatformAccessory was constructed for the accessory.
NoHandler == <<"#nohandler">>

\* setZoneId(id): the id stored for the handler's API calls.
setZoneId(id) == id

\* The first loop of discoverDevices: registerPlatformAccessories calls,
\* updatePlatformAccessories calls and the handlers constructed, in order.
RECURSIVE discoverLoop(_, _, _, _)
discoverLoop(accs, zones, i, out) ==
  IF i > Len(zones) THEN out
  ELSE LET uuid == generate(zones[i].ID) IN
    IF existingAccessory(accs, uuid)
      THEN discoverLoop(accs, zones, i + 1,
             [out EXCEPT !.update = Append(@, uuid),
                         !.bound = Append(@, <<uuid, setZoneId(zones[i].ID)>>)])
      ELSE discoverLoop(accs, zones, i + 1,
             [out EXCEPT !.register = Append(@, uuid),
                         !.bound = Append(@, <<uuid, NoZoneId>>)])

\* The second loop: unregisterPlatformAccessories calls, in order.
removeLoop(accs, zones) == SelectSeq(accs, LAMBDA a : ~existingDevice(zones, a))

\* A naive resynchronisation: drop every restored accessory, add every zone.
discoverDevicesResync(accs, zones) ==
  [register |-> [i \in DOMAIN zones |-> generate(zones[i].ID)],
   update |-> <<>>,
   bound |-> [i \in DOMAIN zones |-> <<generate(zones[i].ID), NoZoneId>>],
   unregister |-> accs]

\* discoverDevices after `await this.fetchZones()`.
discoverDevices(accs, zones) ==
  LET first == discoverLoop(accs, zones, 1, [register |-> <<>>, update |-> <<>>, bound |-> <<>>])
  IN [register |-> first.register, update |-> first.update, bound |-> first.bound,
      unregister |-> removeLoop(accs, zones)]

\* configureAccessory: this.accessories.push(accessory)
configureAccessory(accs, accessory) == Append(accs, accessory)

RECURSIVE restoreAll(_, _, _)
restoreAll(cached, i, accs) ==
  IF i > Len(cached) THEN accs
  ELSE restoreAll(cached, i + 1, configureAccessory(accs, cached[i]))

\* const matrixString = 'Matrix: '
matrixString == <<"M", "a", "t", "r", "i", "x", ":", " ">>

\* Titles of MatrixInfo[0]: the prefix followed by a model, a bare model,
\* a model followed by the prefix text, and the prefix alone.
Titles ==
  {matrixString \o <<"M", "7">>,
   <<"M", "7">>,
   <<"M", "7", " ">> \o matrixString \o <<"X">>,
   matrixString}

\* String.prototype.includes(needle)
IncludesString(s, needle) ==
  \E i \in 0..(Len(s) - Len(needle)) : SubSeq(s, i + 1, i + Len(needle)) = needle

\* String.prototype.substring(start, end) for 0 <= start <= end <= length
substring(s, start, end) == SubSeq(s, start + 1, end)

\* The model fetchPlatformInfo keeps for a title: "Strip out the
\* 'Matrix: ' string if it exists".
stripMatrix(Model) ==
  IF IncludesString(Model, matrixString)
    THEN substring(Model, Len(matrixString), Len(Model))
    ELSE Model

\* Responses to GET /system/info.
\*   reject  : fetch or response.json() rejects, or the body has no
\*             MatrixInfo[0] (a JSON error object, as sent with a non-2xx
\*             status), so reading its Title throws
\*   notitle : MatrixInfo[0] has no Title, so Model.includes throws
\*   json    : the body carries MatrixInfo[0].Title
InfoResponses ==
  {[kind |-> "reject", Title |-> <<>>], [kind |-> "notitle", Title |-> Undefined]}
    \cup {[kind |-> "json", Title |-> t] : t \in Titles}

\* ------------------------------------------------------------------- state
VARIABLES
  phase,         \* where the platform is: off, launched, info, zones, done, rejected
  casaTunesUri,  \* String(config.uri)
  accessories,   \* the platform's array of restored accessories (uuids)
  zonesArray,    \* the platform's cached zones
  hostCache,     \* accessories the host has registered and persists (uuids)
  cache,         \* per accessory, the cached On and Brightness values
  handler,       \* per accessory, the zone id its handler is bound to
  hostCalls,     \* register/update/unregister calls of this process, in order
  pass,          \* the GET /zones response the current pass works on
  prevPass,      \* kind and zonesArray of the previous process's pass
  reqs,          \* handler invocations of this process, in order
  last,          \* the response handled last, and the request it answers
  platformInfo,  \* the platform's Model, as fetchPlatformInfo stored it
  systemInfo,    \* the GET /system/info response of this process
  written        \* per zone address, the latest Power and Volume write the service accepted

vars == <<phase, casaTunesUri, accessories, zonesArray, hostCache,
          cache, handler, hostCalls, pass, prevPass, reqs, last,
          platformInfo, systemInfo, written>>

NoCalls == [register |-> <<>>, update |-> <<>>, unregister |-> <<>>]
NoPass == [kind |-> "none", zones |-> <<>>]
FreshValues == [On |-> DefaultOn, Brightness |-> DefaultBrightness]

\* Responses to a write /zones/{id}?Power=v or ?Volume=v.
\*   reject           : fetch or response.json() rejects
\*   json, status 500 : a non-2xx answer whose body is a JSON error object
\*   json, status 200 : the zone after the write, with Shared and, when
\*                      shared, the group's members
WriteResponses ==
  {[kind |-> "reject", status |-> 0, Shared |-> "undefined", ZoneGroupInfo |-> <<>>],
   [kind |-> "json", status |-> 500, Shared |-> "undefined", ZoneGroupInfo |-> <<>>],
   [kind |-> "json", status |-> 200, Shared |-> "false", ZoneGroupInfo |-> <<>>]}
    \cup {[kind |-> "json", status |-> 200, Shared |-> "true", ZoneGroupInfo |-> m] :
            m \in MemberLists}

\* Power and Volume of a zone as the service reports them.
ZoneBodies == {[Power |-> TRUE, Volume |-> 40], [Power |-> FALSE, Volume |-> 0]}

\* Responses to a read /zones/{id}: fetch or response.json() rejects, or
\* the body is the zone with its Power and Volume.
ReadResponses ==
  {[kind |-> "reject", status |-> 0, Shared |-> "undefined", ZoneGroupInfo |-> <<>>,
    Power |-> FALSE, Volume |-> 0]}
    \cup {[kind |-> "json", status |-> 200, Shared |-> "false", ZoneGroupInfo |-> <<>>,
            Power |-> b.Power, Volume |-> b.Volume] : b \in ZoneBodies}

NoPlatformInfo == [Model |-> <<>>]
NoInfo == [kind |-> "none", Title |-> <<>>]

\* The addresses of the handlers' requests: /zones/{id}.
Addresses == {NoZoneId} \cup {z.PersistentZoneID : z \in ServiceZones \ {AirZone}}
NoWrites == [a \in Addresses |-> FreshValues]

NoLast == [req |-> 0, resp |-> [kind |-> "none", status |-> 0, Shared |-> "undefined",
                                ZoneGroupInfo |-> <<>>]]

Init ==
  /\ phase = "off"
  /\ casaTunesUri = ConfiguredUri
  /\ accessories = <<>>
  /\ zonesArray = <<>>
  /\ hostCache = <<>>
  /\ cache = [u \in UUIDs |-> FreshValues]
  /\ handler = [u \in UUIDs |-> NoHandler]
  /\ hostCalls = NoCalls
  /\ pass = NoPass
  /\ prevPass = NoPass
  /\ reqs = <<>>
  /\ last = NoLast
  /\ platformInfo = NoPlatformInfo
  /\ systemInfo = NoInfo
  /\ written = NoWrites

\* --------------------------------------------------------------- lifecycle
\* The process starts: the constructor stores the URI and the host calls
\* configureAccessory for every accessory of its cache.
Launch ==
  /\ phase = "off"
  /\ \E uri \in Uris : casaTunesUri' = uri
  /\ accessories' = restoreAll(hostCache, 1, <<>>)
  /\ phase' = "launched"
  /\ UNCHANGED <<zonesArray, hostCache, cache, handler, hostCalls, pass,
                 prevPass, reqs, last, platformInfo, systemInfo, written>>

\* A pass that builds every accessory anew, kept ones included.
ReconcileRebuilding(zones) ==
  LET d == discoverDevices(accessories, zones)
      kept == SelectSeq(hostCache, LAMBDA a : a \notin Range(d.unregister))
      added == SelectSeq(d.register, LAMBDA a : a \notin Range(kept))
  IN /\ hostCalls' = [register |-> d.register, update |-> d.update,
                      unregister |-> d.unregister]
     /\ hostCache' = kept \o added
     /\ handler' = [u \in UUIDs |->
                      IF \E i \in DOMAIN d.bound : d.bound[i][1] = u
                        THEN d.bound[CHOOSE i \in DOMAIN d.bound : d.bound[i][1] = u][2]
                        ELSE handler[u]]
     /\ cache' = [u \in UUIDs |-> FreshValues]

\* The effect of one completed discoverDevices on the host and the handlers.
Reconcile(zones) ==
  LET d == discoverDevices(accessories, zones)
      kept == SelectSeq(hostCache, LAMBDA a : a \notin Range(d.unregister))
      added == SelectSeq(d.register, LAMBDA a : a \notin Range(kept))
  IN /\ hostCalls' = [register |-> d.register, update |-> d.update,
                      unregister |-> d.unregister]
     /\ hostCache' = kept \o added
     /\ handler' = [u \in UUIDs |->
                      IF \E i \in DOMAIN d.bound : d.bound[i][1] = u
                        THEN d.bound[CHOOSE i \in DOMAIN d.bound : d.bound[i][1] = u][2]
                        ELSE handler[u]]
     /\ cache' = [u \in UUIDs |->
                    IF u \in Range(d.register) \cup Range(d.unregister)
                      THEN FreshValues ELSE cache[u]]

\* didFinishLaunching: fetchPlatformInfo up to its fetch.  With an unset
\* URI neither fetchPlatformInfo nor fetchZones suspends: both log the
\* error and discoverDevices runs its loops over the zonesArray as it is.
didFinishLaunching ==
  /\ phase = "launched"
  /\ IF match(casaTunesUri, "undefined")
       THEN /\ phase' = "done"
            /\ pass' = [kind |-> "unconfigured", zones |-> <<>>]
            /\ Reconcile(zonesArray)
            /\ UNCHANGED zonesArray
       ELSE /\ phase' = "info"
            /\ UNCHANGED <<pass, zonesArray, hostCalls, hostCache, handler, cache>>
  /\ UNCHANGED <<casaTunesUri, accessories, prevPass, reqs, last,
                 platformInfo, systemInfo, written>>

\* fetchPlatformInfo from the response on.  A rejected fetch or json(), or
\* a body without MatrixInfo[0], rejects the didFinishLaunching callback
\* before discoverDevices is called; otherwise discoverDevices starts and
\* fetchZones issues GET /zones.
fetchPlatformInfo ==
  /\ phase = "info"
  /\ \E resp \in InfoResponses :
       /\ systemInfo' = resp
       /\ platformInfo' =
            IF resp.kind = "reject" THEN platformInfo
            ELSE IF resp.kind = "notitle" THEN [platformInfo EXCEPT !.Model = resp.Title]
            ELSE [platformInfo EXCEPT !.Model = stripMatrix(resp.Title)]
       /\ phase' = IF resp.kind = "json" THEN "zones" ELSE "rejected"
  /\ UNCHANGED <<casaTunesUri, accessories, zonesArray, hostCache, cache,
                 handler, hostCalls, pass, prevPass, reqs, last, written>>

\* fetchZones from the response on, and the rest of discoverDevices.
discoverDevicesResume ==
  /\ phase = "zones"
  /\ \E resp \in ZonesResponses :
       LET f == fetchZones(zonesArray, resp) IN
         /\ pass' = resp
         /\ zonesArray' = f.zonesArray
         /\ IF f.threw
              THEN /\ phase' = "rejected"
                   /\ UNCHANGED <<hostCalls, hostCache, handler, cache>>
              ELSE /\ phase' = "done"
                   /\ Reconcile(f.zonesArray)
  /\ UNCHANGED <<casaTunesUri, accessories, prevPass, reqs, last,
                 platformInfo, systemInfo, written>>

\* A stop after which the next process finds the zones of this one.
ShutdownKeepsZones ==
  /\ phase \in {"done", "rejected"}
  /\ phase' = "off"
  /\ prevPass' = IF phase = "done" /\ pass.kind = "list"
                   THEN [kind |-> "list", zones |-> zonesArray]
                   ELSE NoPass
  /\ casaTunesUri' = ConfiguredUri
  /\ accessories' = <<>>
  /\ handler' = [u \in UUIDs |-> NoHandler]
  /\ hostCalls' = NoCalls
  /\ pass' = NoPass
  /\ reqs' = <<>>
  /\ last' = NoLast
  /\ platformInfo' = NoPlatformInfo
  /\ systemInfo' = NoInfo
  /\ UNCHANGED <<zonesArray, hostCache, cache, written>>

\* The process stops: its memory is gone (requests in flight die with it),
\* the host keeps its accessory cache.
Shutdown ==
  /\ phase \in {"done", "rejected"}
  /\ phase' = "off"
  /\ prevPass' = IF phase = "done" /\ pass.kind = "list"
                   THEN [kind |-> "list", zones |-> zonesArray]
                   ELSE NoPass
  /\ casaTunesUri' = ConfiguredUri
  /\ accessories' = <<>>
  /\ zonesArray' = <<>>
  /\ handler' = [u \in UUIDs |-> NoHandler]
  /\ hostCalls' = NoCalls
  /\ pass' = NoPass
  /\ reqs' = <<>>
  /\ last' = NoLast
  /\ platformInfo' = NoPlatformInfo
  /\ systemInfo' = NoInfo
  /\ UNCHANGED <<hostCache, cache, written>>

\* ------------------------------------------------- the accessory handlers
\* getZonesArray() and getAccessories() of the platform, and the ZoneId and
\* UUID fields of a cached zone, which the handlers read.
getZonesArray == zonesArray
getAccessories == accessories
ZoneIdOf(info) == (CHOOSE z \in ServiceZones : z.PersistentZoneID = info.ID).ZoneID
UUIDOf(info) == generate(info.ID)

\* A handler is invoked with (value, callback): it checks the URI and
\* issues its write.  parent is 0 for a request of HomeKit, else the request
\* whose propagation dispatched this one.
invoke(rs, u, char, value, parent) ==
  Append(rs, [op |-> "set", acc |-> u, char |-> char, value |-> value,
              zone |-> handler[u], parent |-> parent,
              st |-> IF match(casaTunesUri, "undefined") THEN "unconfigured"
                                                          ELSE "pending"])

\* getOn / getVolume invoked with (callback): it checks the URI and issues
\* its read.  `value` holds the characteristic's value at the invocation.
invokeGet(rs, u, char) ==
  Append(rs, [op |-> "get", acc |-> u, char |-> char, value |-> cache[u][char],
              zone |-> handler[u], parent |-> 0,
              st |-> IF match(casaTunesUri, "undefined") THEN "unconfigured"
                                                          ELSE "pending"])

\* A callback that stores the value for every accessory.
callbackAll(c, u, char, value) == [x \in DOMAIN c |-> [c[x] EXCEPT ![char] = value]]

\* callback(null) of a SET, callback(null, value) of a GET: the host stores the value as the characteristic's value.
callback(c, u, char, value) == [c EXCEPT ![u][char] = value]

\* service.setCharacteristic(char, value): the host emits 'set' to the
\* handler bound to the characteristic, which stores the value when the
\* handler calls back; without a handler it stores the value at once.
setCharacteristic(st, u, char, value, parent) ==
  IF handler[u] # NoHandler
    THEN [st EXCEPT !.reqs = invoke(@, u, char, value, parent)]
    ELSE [st EXCEPT !.cache = callback(@, u, char, value)]

\* The propagation loop of setOn / setVolume over zone.ZoneGroupInfo.
\* `info.UUID` throws when no cached zone has the member's id, and
\* `accessory.displayName` in the log line throws when no accessory has the
\* zone's uuid; the handler then rejects where it stands.
RECURSIVE propagate(_, _, _, _, _, _)
propagate(members, i, r, char, value, st) ==
  IF i > Len(members) THEN st
  ELSE LET zs == getZonesArray
           found == {k \in DOMAIN zs : ZoneIdOf(zs[k]) = members[i]}
       IN IF found = {} THEN [st EXCEPT !.threw = TRUE]
          ELSE LET info == zs[CHOOSE k \in found : \A m \in found : k <= m]
               IN IF ~existingAccessory(getAccessories, UUIDOf(info))
                    THEN [st EXCEPT !.threw = TRUE]
                    ELSE propagate(members, i + 1, r, char, value,
                                   setCharacteristic(st, UUIDOf(info), char, value, r))

\* A handler from its write's response to its end.
resume(r, resp) ==
  LET q == reqs[r]
      st0 == [threw |-> FALSE, reqs |-> reqs, cache |-> cache]
  IN IF resp.kind = "reject"
       THEN [st0 EXCEPT !.reqs[r].st = "rejected"]
       ELSE LET st1 == IF match(<<resp.Shared>>, "true")
                         THEN propagate(resp.ZoneGroupInfo, 1, r, q.char, q.value, st0)
                         ELSE st0
            IN IF st1.threw
                 THEN [st1 EXCEPT !.reqs[r].st = "threw"]
                 ELSE [st1 EXCEPT !.reqs[r].st = "ok",
                                  !.cache = callback(@, q.acc, q.char, q.value)]

\* getOn / getVolume from the read's response to its end:
\* callback(null, info.Power) or callback(null, info.Volume).
resumeGet(r, resp) ==
  LET q == reqs[r]
      st0 == [threw |-> FALSE, reqs |-> reqs, cache |-> cache]
  IN IF resp.kind = "reject"
       THEN [st0 EXCEPT !.reqs[r].st = "rejected"]
       ELSE [st0 EXCEPT !.reqs[r].st = "ok",
                        !.cache = callback(@, q.acc, q.char,
                                           IF q.char = "On" THEN resp.Power ELSE resp.Volume)]

\* A handler that reflects the value onto another accessory before its
\* own write is answered.
IssueReflectingFirst(u, char, value) ==
  /\ phase = "done"
  /\ last = NoLast
  /\ Len(reqs) + 1 < MaxRequests
  /\ Cardinality({r \in DOMAIN reqs : reqs[r].parent = 0}) < MaxUserSets
  /\ handler[u] # NoHandler
  /\ \E m \in Range(hostCache) \ {u} :
       /\ handler[m] # NoHandler
       /\ reqs' = invoke(invoke(reqs, u, char, value, 0), m, char, value, Len(reqs) + 1)

\* The host emits 'set' for a request of HomeKit on a registered accessory
\* to the handler bound to the characteristic.  No handler is entered
\* while another one runs (one thread of control).
Issue(u, char, value) ==
  /\ phase = "done"
  /\ last = NoLast
  /\ Len(reqs) < MaxRequests
  /\ Cardinality({r \in DOMAIN reqs : reqs[r].parent = 0}) < MaxUserSets
  /\ handler[u] # NoHandler
  /\ reqs' = invoke(reqs, u, char, value, 0)

\* setOn(value, callback) up to `await fetch(uri)`.
setOn ==
  /\ \E u \in Range(hostCache), value \in BOOLEAN : Issue(u, "On", value)
  /\ UNCHANGED <<phase, casaTunesUri, accessories, zonesArray, hostCache,
                 cache, handler, hostCalls, pass, prevPass, last,
                 platformInfo, systemInfo, written>>

\* setVolume(value, callback) up to `await fetch(uri)`.
setVolume ==
  /\ \E u \in Range(hostCache), value \in Volumes : Issue(u, "Brightness", value)
  /\ UNCHANGED <<phase, casaTunesUri, accessories, zonesArray, hostCache,
                 cache, handler, hostCalls, pass, prevPass, last,
                 platformInfo, systemInfo, written>>

\* The service's answer to a pending write arrives; a 2xx answer means
\* the service has taken the value.
WriteResponse ==
  /\ phase = "done"
  /\ last = NoLast
  /\ \E r \in DOMAIN reqs, resp \in WriteResponses :
       /\ reqs[r].op = "set"
       /\ reqs[r].st = "pending"
       /\ Len(resume(r, resp).reqs) <= MaxRequests
       /\ last' = [req |-> r, resp |-> resp]
       /\ written' = IF resp.kind = "json" /\ resp.status = 200
                        THEN [written EXCEPT ![reqs[r].zone][reqs[r].char] = reqs[r].value]
                        ELSE written
  /\ UNCHANGED <<phase, casaTunesUri, accessories, zonesArray, hostCache,
                 cache, handler, hostCalls, pass, prevPass, reqs,
                 platformInfo, systemInfo>>

\* The host emits 'get' for a request of HomeKit on a registered accessory.
IssueGet(u, char) ==
  /\ phase = "done"
  /\ last = NoLast
  /\ Len(reqs) < MaxRequests
  /\ Cardinality({r \in DOMAIN reqs : reqs[r].parent = 0}) < MaxUserSets
  /\ handler[u] # NoHandler
  /\ reqs' = invokeGet(reqs, u, char)

\* getOn(callback) up to `await fetch(uri)`.
getOn ==
  /\ \E u \in Range(hostCache) : IssueGet(u, "On")
  /\ UNCHANGED <<phase, casaTunesUri, accessories, zonesArray, hostCache,
                 cache, handler, hostCalls, pass, prevPass, last,
                 platformInfo, systemInfo, written>>

\* getVolume(callback) up to `await fetch(uri)`.
getVolume ==
  /\ \E u \in Range(hostCache) : IssueGet(u, "Brightness")
  /\ UNCHANGED <<phase, casaTunesUri, accessories, zonesArray, hostCache,
                 cache, handler, hostCalls, pass, prevPass, last,
                 platformInfo, systemInfo, written>>

\* The service's answer to a pending read arrives.
ReadResponse ==
  /\ phase = "done"
  /\ last = NoLast
  /\ \E r \in DOMAIN reqs, resp \in ReadResponses :
       /\ reqs[r].op = "get"
       /\ reqs[r].st = "pending"
       /\ last' = [req |-> r, resp |-> resp]
  /\ UNCHANGED <<phase, casaTunesUri, accessories, zonesArray, hostCache,
                 cache, handler, hostCalls, pass, prevPass, reqs,
                 platformInfo, systemInfo, written>>

\* The GET handler that awaited the answer runs to its end.
ContinueGet ==
  LET st == resumeGet(last.req, last.resp) IN
    /\ reqs' = st.reqs
    /\ cache' = st.cache
    /\ last' = NoLast

\* getOn from the answer on.
getOnResume ==
  /\ phase = "done"
  /\ last # NoLast
  /\ reqs[last.req].op = "get"
  /\ reqs[last.req].char = "On"
  /\ ContinueGet
  /\ UNCHANGED <<phase, casaTunesUri, accessories, zonesArray, hostCache,
                 handler, hostCalls, pass, prevPass, platformInfo, systemInfo, written>>

\* getVolume from the answer on.
getVolumeResume ==
  /\ phase = "done"
  /\ last # NoLast
  /\ reqs[last.req].op = "get"
  /\ reqs[last.req].char = "Brightness"
  /\ ContinueGet
  /\ UNCHANGED <<phase, casaTunesUri, accessories, zonesArray, hostCache,
                 handler, hostCalls, pass, prevPass, platformInfo, systemInfo, written>>

\* The handler that awaited the answer runs to its end.
Continue ==
  LET st == resume(last.req, last.resp) IN
    /\ reqs' = st.reqs
    /\ cache' = st.cache
    /\ last' = NoLast

\* setOn from the answer on.
setOnResume ==
  /\ phase = "done"
  /\ last # NoLast
  /\ reqs[last.req].op = "set"
  /\ reqs[last.req].char = "On"
  /\ Continue
  /\ UNCHANGED <<phase, casaTunesUri, accessories, zonesArray, hostCache,
                 handler, hostCalls, pass, prevPass, platformInfo, systemInfo, written>>

\* setVolume from the answer on.
setVolumeResume ==
  /\ phase = "done"
  /\ last # NoLast
  /\ reqs[last.req].op = "set"
  /\ reqs[last.req].char = "Brightness"
  /\ Continue
  /\ UNCHANGED <<phase, casaTunesUri, accessories, zonesArray, hostCache,
                 handler, hostCalls, pass, prevPass, platformInfo, systemInfo, written>>

\* ---------------------------------------------------------- specifications
\* Zone lists served in the specification of the handlers.
ServedLists == {<<Zone2, Zone3, Zone9>>, <<AirZone, Zone3, Zone2>>}

\* Host caches left by earlier processes.
U2 == generate(Zone2.PersistentZoneID)
U3 == generate(Zone3.PersistentZoneID)
U9 == generate(Zone9.PersistentZoneID)
RestoredCaches == {<<U2>>, <<U2, U3, U9>>}

\* fetchPlatformInfo with the answer limited to one title.
fetchPlatformInfoServed ==
  /\ systemInfo' = [kind |-> "json", Title |-> matrixString \o <<"M", "7">>]
  /\ fetchPlatformInfo

\* discoverDevicesResume with the answers limited to the served lists.
discoverDevicesServed ==
  /\ pass' \in {[kind |-> "list", zones |-> l] : l \in ServedLists}
  /\ discoverDevicesResume

Next ==
  \/ Launch
  \/ didFinishLaunching
  \/ fetchPlatformInfo
  \/ discoverDevicesResume
  \/ Shutdown

\* The discovery passes of successive processes.
Spec == Init /\ [][Next]_vars

\* One process, started on a host cache of earlier processes, and the SET
\* requests it serves.
InitSet ==
  /\ phase = "off"
  /\ casaTunesUri = ConfiguredUri
  /\ accessories = <<>>
  /\ zonesArray = <<>>
  /\ hostCache \in RestoredCaches
  /\ cache = [u \in UUIDs |-> FreshValues]
  /\ handler = [u \in UUIDs |-> NoHandler]
  /\ hostCalls = NoCalls
  /\ pass = NoPass
  /\ prevPass = NoPass
  /\ reqs = <<>>
  /\ last = NoLast
  /\ platformInfo = NoPlatformInfo
  /\ systemInfo = NoInfo
  /\ written = NoWrites

NextSet ==
  \/ Launch
  \/ didFinishLaunching
  \/ fetchPlatformInfoServed
  \/ discoverDevicesServed
  \/ setOn
  \/ setVolume
  \/ WriteResponse
  \/ setOnResume
  \/ setVolumeResume

SpecSet == InitSet /\ [][NextSet]_vars

\* One process, started on the accessories of z2 and z9 with values an
\* earlier process cached, and the SET and GET requests it serves.
RestoredValues == [On |-> TRUE, Brightness |-> 40]

InitGet ==
  /\ phase = "off"
  /\ casaTunesUri = ConfiguredUri
  /\ accessories = <<>>
  /\ zonesArray = <<>>
  /\ hostCache = <<U2, U9>>
  /\ cache = [u \in UUIDs |-> IF u \in {U2, U9} THEN RestoredValues ELSE FreshValues]
  /\ handler = [u \in UUIDs |-> NoHandler]
  /\ hostCalls = NoCalls
  /\ pass = NoPass
  /\ prevPass = NoPass
  /\ reqs = <<>>
  /\ last = NoLast
  /\ platformInfo = NoPlatformInfo
  /\ systemInfo = NoInfo
  /\ written = NoWrites

\* discoverDevicesResume with the answer [z2, z3].
discoverDevicesTwoZones ==
  /\ pass' = [kind |-> "list", zones |-> <<Zone2, Zone3>>]
  /\ discoverDevicesResume

NextGet ==
  \/ Launch
  \/ didFinishLaunching
  \/ fetchPlatformInfoServed
  \/ discoverDevicesTwoZones
  \/ setOn
  \/ setVolume
  \/ WriteResponse
  \/ setOnResume
  \/ setVolumeResume
  \/ getOn
  \/ getVolume
  \/ ReadResponse
  \/ getOnResume
  \/ getVolumeResume

SpecGet == InitGet /\ [][NextGet]_vars

\* ------------------------------------------------------------ properties
IdsOf(zs) == {zs[i].ID : i \in DOMAIN zs}
\* The persistent ids of the list's entries that are no AirPlay zones.
FreshIds(list) ==
  {list[i].PersistentZoneID : i \in {j \in DOMAIN list : ~(\E k \in DOMAIN list[j].PersistentZoneID : list[j].PersistentZoneID[k] = "@")}}
PassCompleted == phase = "done" /\ pass.kind = "list"

\* C1: one pass keeps (updatePlatformAccessories) each fresh zone whose
\* uuid is a restored accessory's, creates (registerPlatformAccessories)
\* each other fresh zone, and removes (unregisterPlatformAccessories)
\* exactly the restored accessories whose uuid no fresh zone has; restored
\* {uuid(z2), uuid(z9)} with zones [z2, z3] gives create [z3], keep [z2],
\* remove [z9].
C1_Classification ==
  PassCompleted =>
    LET restored == Range(accessories)
        fresh == {generate(id) : id \in FreshIds(pass.zones)}
    IN /\ \A u \in fresh :
            IF u \in restored
              THEN u \in Range(hostCalls.update) /\ u \notin Range(hostCalls.register)
              ELSE u \in Range(hostCalls.register) /\ u \notin Range(hostCalls.update)
       /\ Range(hostCalls.update) \cup Range(hostCalls.register) \subseteq fresh
       /\ Range(hostCalls.unregister) = restored \ fresh
       /\ (accessories = <<U2, U9>> /\ pass.zones = <<Zone2, Zone3>>) =>
            hostCalls = [register |-> <<U3>>, update |-> <<U2>>, unregister |-> <<U9>>]

C1_Witness ==
  /\ PassCompleted
  /\ accessories = <<U2, U9>>
  /\ pass.zones = <<Zone2, Zone3>>
  /\ hostCalls = [register |-> <<U3>>, update |-> <<U2>>, unregister |-> <<U9>>]

\* C2: a pass against the zones of the previous process's completed pass,
\* whose registrations and unregistrations the host has applied, registers
\* nothing, unregisters nothing and keeps every zone.
C2_Idempotent ==
  (PassCompleted /\ prevPass.kind = "list" /\ IdsOf(zonesArray) = IdsOf(prevPass.zones)) =>
    /\ hostCalls.register = <<>>
    /\ hostCalls.unregister = <<>>
    /\ \A id \in IdsOf(zonesArray) : generate(id) \in Range(hostCalls.update)

C2_Witness ==
  /\ PassCompleted
  /\ prevPass.kind = "list"
  /\ IdsOf(zonesArray) = IdsOf(prevPass.zones)
  /\ Len(zonesArray) >= 2
  /\ Len(hostCalls.update) = Len(zonesArray)

\* C3: no uuid is both registered and unregistered in one pass.
C3_CreateRemoveDisjoint ==
  Range(hostCalls.register) \cap Range(hostCalls.unregister) = {}

C3_Witness ==
  /\ phase = "done"
  /\ hostCalls.register # <<>>
  /\ hostCalls.unregister # <<>>

\* C7: the zones fetchZones surfaces are the entries of the service's list
\* without '@' in their persistent id, all of them, in the list's order;
\* [z1@air, z2, z3] yields [z2, z3].
C7_AirPlayFiltered ==
  PassCompleted =>
    /\ \A i \in DOMAIN zonesArray : \A k \in DOMAIN zonesArray[i].ID : zonesArray[i].ID[k] # "@"
    /\ IdsOf(zonesArray) = FreshIds(pass.zones)
    /\ Len(zonesArray) = Cardinality(FreshIds(pass.zones))
    /\ \A i, j \in DOMAIN zonesArray :
         i < j => \E a, b \in DOMAIN pass.zones :
                    /\ a < b
                    /\ pass.zones[a].PersistentZoneID = zonesArray[i].ID
                    /\ pass.zones[b].PersistentZoneID = zonesArray[j].ID
    /\ \A i \in DOMAIN zonesArray : \E a \in DOMAIN pass.zones :
         /\ pass.zones[a].PersistentZoneID = zonesArray[i].ID
         /\ pass.zones[a].Name = zonesArray[i].Name
    /\ pass.zones = <<AirZone, Zone2, Zone3>> =>
         zonesArray = <<[Name |-> "Kitchen", ID |-> <<"z", "2">>],
                        [Name |-> "Den", ID |-> <<"z", "3">>]>>

C7_Witness ==
  /\ PassCompleted
  /\ pass.zones = <<AirZone, Zone2, Zone3>>
  /\ Len(zonesArray) = 2
  /\ zonesArray[1].ID = <<"z", "2">>
  /\ zonesArray[2].ID = <<"z", "3">>

\* C8: with an unset URI a cycle registers, updates and unregisters no
\* accessory, and every restored accessory is still registered after it.
C8_UnsetUriChangesNothing ==
  (phase = "done" /\ pass.kind = "unconfigured") =>
    /\ hostCalls = NoCalls
    /\ Range(accessories) \subseteq Range(hostCache)

\* The zone-list fetch failed: transport error or unparsable body, a body
\* that is no list, or a list entry without PersistentZoneID.
FetchFailed ==
  \/ pass.kind \in {"reject", "nolist"}
  \/ pass.kind = "list" /\ \E i \in DOMAIN pass.zones : pass.zones[i].PersistentZoneID = Undefined

\* C9 as stated: a failed zone-list fetch reaches reconciliation as an
\* empty zone set, and the pass unregisters every restored accessory.
C9_FailureRemovesAll ==
  (FetchFailed /\ phase \in {"done", "rejected"}) =>
    hostCalls.unregister = accessories

\* C9 amended: a fetch that throws (transport error, unparsable body, list
\* entry without PersistentZoneID) rejects discoverDevices before its loops:
\* nothing is registered, updated or unregistered.  Only a body that parses
\* to a value without a list length reaches reconciliation, as an empty
\* zone set, and every restored accessory is unregistered.
C9_ThrowAbortsNoListRemovesAll ==
  FetchFailed =>
    IF pass.kind = "nolist"
      THEN /\ phase = "done"
           /\ zonesArray = <<>>
           /\ hostCalls = [register |-> <<>>, update |-> <<>>, unregister |-> accessories]
           /\ Range(hostCache) \cap Range(accessories) = {}
      ELSE /\ phase = "rejected"
           /\ hostCalls = NoCalls
           /\ hostCache = accessories

C9_Witness ==
  /\ pass.kind = "nolist"
  /\ phase = "done"
  /\ Len(accessories) >= 2
  /\ hostCalls.unregister = accessories

\* The request of HomeKit that a handler invocation goes back to.
RECURSIVE Root(_)
Root(r) == IF reqs[r].parent = 0 THEN r ELSE Root(reqs[r].parent)

\* The accessory registered for the zone with member id m, if any.
MemberAccessories(m) ==
  {generate(z.PersistentZoneID) : z \in {y \in ServiceZones : y.ZoneID = m}} \cap Range(hostCache)

\* A handler's continuation has just run on the answer `last`.
Resumed == last # NoLast /\ last' = NoLast

\* C4: every SET of HomeKit causes exactly one write, addressed to the
\* zone its handler is bound to, with one parameter; reflecting the value
\* onto group members issues no further write.
C4_OneWritePerSet ==
  \A r \in DOMAIN reqs :
    reqs[r].parent = 0 =>
      /\ {q \in DOMAIN reqs : Root(q) = r} = {r}
      /\ reqs[r].zone = handler[reqs[r].acc]
      /\ reqs[r].char \in {"On", "Brightness"}

\* C5: when a SET succeeds on a zone whose answer marks it shared, then on
\* its completion every member of ZoneGroupInfo with a registered accessory
\* has the written value as that accessory's cached On / Brightness.
C5_MembersReflectedOnCompletion ==
  [][(Resumed /\ reqs'[last.req].st = "ok" /\ last.resp.Shared = "true") =>
       \A i \in DOMAIN last.resp.ZoneGroupInfo :
         \A u \in MemberAccessories(last.resp.ZoneGroupInfo[i]) :
           cache'[u][reqs[last.req].char] = reqs[last.req].value]_vars

\* C6: a member without a cached zone entry or without an accessory is
\* skipped: the SET does not fail, its callback is invoked with success
\* and the members that do resolve are still reflected.
C6_UnresolvedMemberSkipped ==
  [][(Resumed /\ last.resp.kind = "json" /\ last.resp.Shared = "true") =>
       /\ reqs'[last.req].st = "ok"
       /\ \A i \in DOMAIN last.resp.ZoneGroupInfo :
            \A u \in MemberAccessories(last.resp.ZoneGroupInfo[i]) \cap Range(accessories) :
              \/ cache'[u][reqs[last.req].char] = reqs[last.req].value
              \/ \E q \in DOMAIN reqs' \ DOMAIN reqs :
                   reqs'[q].acc = u /\ reqs'[q].parent = last.req]_vars

\* C10: a SET whose write fails (network error, non-2xx or unparsable
\* answer) leaves every accessory's cached On and Brightness as they were.
C10_FailedWriteKeepsCache ==
  [][(Resumed /\ (last.resp.kind = "reject" \/ last.resp.status # 200)) =>
       cache' = cache]_vars

\* The string s begins with the string prefix.
StartsWith(s, prefix) == Len(s) >= Len(prefix) /\ SubSeq(s, 1, Len(prefix)) = prefix

\* C13: the stored model is the title without its first 8 characters when
\* the title starts with "Matrix: ", and the title itself otherwise, also
\* when "Matrix: " occurs in it at a later offset; "Matrix: M7" is stored
\* as "M7" and "M7" as "M7".
C13_PrefixStrippedAtOffsetZeroOnly ==
  systemInfo.kind = "json" =>
    /\ platformInfo.Model =
         IF StartsWith(systemInfo.Title, matrixString)
           THEN SubSeq(systemInfo.Title, Len(matrixString) + 1, Len(systemInfo.Title))
           ELSE systemInfo.Title
    /\ systemInfo.Title = matrixString \o <<"M", "7">> => platformInfo.Model = <<"M", "7">>
    /\ systemInfo.Title = <<"M", "7">> => platformInfo.Model = <<"M", "7">>

\* C14: once a pass over a fetched list has completed, every uuid in the platform's
\* accessories array is the uuid of a cached zone; an accessory the pass
\* removed is no longer in the array.
C14_AccessoriesWithinZones ==
  PassCompleted =>
    /\ Range(accessories) \subseteq {generate(id) : id \in IdsOf(zonesArray)}
    /\ Range(accessories) \cap Range(hostCalls.unregister) = {}

\* C15: after a pass, the handler of every accessory the pass kept or
\* created is bound to the persistent zone id its uuid was derived from.
C15_HandlerBoundToOwnZone ==
  phase = "done" =>
    \A i \in DOMAIN zonesArray :
      handler[generate(zonesArray[i].ID)] = zonesArray[i].ID

\* C18: when fetchPlatformInfo has failed, discoverDevices has still been
\* called: the zone list is being fetched or has been answered.
C18_InfoFailureStillDiscovers ==
  systemInfo.kind \in {"reject", "notitle"} =>
    phase \in {"zones", "done"} \/ pass.kind # "none"

\* The entries of a zone list without '@' in their persistent id, as the
\* zones they are cached as.
Filtered(list) ==
  LET f == SelectSeq(list, LAMBDA e : \A k \in DOMAIN e.PersistentZoneID : e.PersistentZoneID[k] # "@")
  IN [i \in DOMAIN f |-> [Name |-> f[i].Name, ID |-> f[i].PersistentZoneID]]

\* C16: after a successful fetchZones the cached zones are exactly the
\* '@'-filtered list of the latest response: no zone of the previous
\* cycle's fetch is left over, also when the latest list is the shorter.
C16_ZonesReplacedWholesale ==
  PassCompleted =>
    /\ zonesArray = Filtered(pass.zones)
    /\ \A i \in DOMAIN prevPass.zones :
         prevPass.zones[i] \in Range(zonesArray) =>
           prevPass.zones[i] \in Range(Filtered(pass.zones))

C16_Witness ==
  /\ PassCompleted
  /\ prevPass.kind = "list"
  /\ zonesArray # <<>>
  /\ Len(zonesArray) < Len(prevPass.zones)
  /\ prevPass.zones[Len(prevPass.zones)] \notin Range(zonesArray)

\* C11: every handler that has run to its end has invoked its callback,
\* with success or with the error: no SET or GET request ends without one.
\* (A request is `ok` once its handler has called back; the handlers have
\* no call that passes an error.)
C11_EveryRequestCalledBack ==
  \A r \in DOMAIN reqs : reqs[r].st \in {"pending", "ok"}

\* C12: a GET reads the zone its accessory's uuid was derived from, and
\* the value it calls back with, which the host stores, is the Power or
\* Volume of that response whatever the cached value was.
C12_GetReadsOwnZoneFresh ==
  [][(Resumed /\ reqs[last.req].op = "get" /\ last.resp.kind = "json") =>
       LET q == reqs[last.req] IN
         /\ generate(q.zone) = q.acc
         /\ reqs'[last.req].st = "ok"
         /\ cache'[q.acc][q.char] = IF q.char = "On" THEN last.resp.Power
                                                      ELSE last.resp.Volume]_vars

\* No request is in flight and no answer is being handled.
Quiescent == last = NoLast /\ \A r \in DOMAIN reqs : reqs[r].st # "pending"

C19_WriteAnsweredBeforeReflection ==
  [][/\ \A q \in DOMAIN reqs' \ DOMAIN reqs :
          reqs'[q].parent # 0 =>
            /\ Resumed
            /\ last.req = reqs'[q].parent
            /\ last.resp.kind = "json"
            /\ reqs[last.req].st = "pending"
     /\ \A q \in DOMAIN reqs :
          reqs[q].parent # 0 =>
            reqs[q].parent < q /\ reqs[reqs[q].parent].st \in {"ok", "threw"}
     /\ (phase = "done" /\ phase' = "done" /\ cache' # cache) =>
          /\ Resumed
          /\ last.resp.kind = "json"
          /\ \A u \in UUIDs : cache'[u] # cache[u] => u = reqs[last.req].acc]_vars

C19_Witness ==
  \E q \in DOMAIN reqs :
    /\ reqs[q].parent # 0
    /\ reqs[q].st = "ok"
    /\ reqs[reqs[q].parent].st = "ok"
    /\ cache[reqs[q].acc][reqs[q].char] = reqs[q].value
    /\ reqs[q].value # RestoredValues[reqs[q].char]

\* C20: a step of a SET or GET handler leaves the accessories array, the
\* host's registrations, the register/update/unregister calls and the
\* cached zones as they are; a step of the
\* start-up and discovery pass leaves the cached On and Brightness of
\* every accessory registered before and after it as they are.
C20_HandlersAndDiscoveryFrames ==
  [][/\ (phase' = phase /\ (reqs' # reqs \/ last' # last)) =>
          UNCHANGED <<accessories, hostCache, hostCalls, zonesArray>>
     /\ (phase' # phase) =>
          \A u \in Range(hostCache) \cap Range(hostCache') : cache'[u] = cache[u]]_vars

C20_Witness ==
  /\ phase = "done"
  /\ hostCalls.register # <<>>
  /\ hostCalls.unregister # <<>>
  /\ \E r \in DOMAIN reqs : reqs[r].op = "set" /\ reqs[r].st = "ok"
  /\ \E r \in DOMAIN reqs : reqs[r].op = "get" /\ reqs[r].st = "ok"
  /\ \E u \in Range(hostCalls.update) :
       /\ cache[u] = RestoredValues
       /\ \A r \in DOMAIN reqs : reqs[r].acc # u

\* C21: while the URI contains the token "undefined" no request to the
\* service is outstanding or has been answered: fetchPlatformInfo and
\* fetchZones have not fetched, and no handler has issued a write or read.
C21_NoRequestWhileUnset ==
  (\E i \in DOMAIN casaTunesUri : casaTunesUri[i] = "undefined") =>
    /\ phase \notin {"info", "zones"}
    /\ systemInfo = NoInfo
    /\ pass.kind \in {"none", "unconfigured"}
    /\ \A r \in DOMAIN reqs : reqs[r].st = "unconfigured"
    /\ last = NoLast

C21_Witness ==
  /\ casaTunesUri = <<"http://", "undefined", "/api/v1">>
  /\ phase = "done"
  /\ pass.kind = "unconfigured"
  /\ accessories # <<>>

\* C22: the continuation of a SET whose answer does not mark the zone
\* shared changes the cached On / Brightness of no accessory but its
\* target; no step of a power SET changes a cached Brightness and no step
\* of a volume SET a cached On, and the handlers a SET dispatches carry its
\* characteristic.
C22_NonSharedSetTouchesTargetOnly ==
  [][/\ (Resumed /\ reqs[last.req].op = "set" /\ ~(last.resp.Shared = "true")) =>
          \A u \in UUIDs \ {reqs[last.req].acc} : cache'[u] = cache[u]
     /\ (Resumed /\ reqs[last.req].op = "set") =>
          \A u \in UUIDs :
            \A char \in {"On", "Brightness"} \ {reqs[last.req].char} :
              cache'[u][char] = cache[u][char]
     /\ \A q \in DOMAIN reqs : reqs[q].char = reqs[Root(q)].char]_vars

C22_Witness ==
  /\ Len(reqs) = 1
  /\ reqs[1].op = "set"
  /\ reqs[1].st = "ok"
  /\ reqs[1].char = "On"
  /\ reqs[1].acc = U3
  /\ cache[U3] = [On |-> TRUE, Brightness |-> DefaultBrightness]
  /\ cache[U2] = RestoredValues
  /\ U2 \in Range(hostCache)

\* The requests whose propagation led, directly or through other handlers,
\* to the invocation q.
RECURSIVE Ancestors(_)
Ancestors(q) ==
  IF reqs[q].parent = 0 THEN {} ELSE {reqs[q].parent} \cup Ancestors(reqs[q].parent)

\* C23: the handlers a SET sets off are invoked on accessories the chain
\* of dispatches has not been through, so a chain is no longer than the
\* number of accessories: no handler is invoked again, through
\* setCharacteristic, from a request on its own accessory.
C23_NoHandlerReentered ==
  \A q \in DOMAIN reqs :
    \A p \in Ancestors(q) : reqs[p].acc # reqs[q].acc

====
